---- MODULE Spec2Model ----
(***************************************************************************)
(* PageChooserHeader (wagtail_transfer/static_src/chooser):                *)
(* a stateless React function component that renders a title and a search *)
(* text input and forwards every change of the input to the onSearch prop. *)
(*                                                                         *)
(* JavaScript values are tagged records; a JavaScript string is a sequence *)
(* of one-character strings, so that "verbatim" is something a check can   *)
(* refute.                                                                 *)
(***************************************************************************)
EXTENDS Integers, Sequences, FiniteSets, TLC

\* ---------------------------------------------------------------- bounds
MaxEvents == 2
MaxSubmits == 1

\* ------------------------------------------------------ JavaScript values
Undefined == [t |-> "undefined"]
Null == [t |-> "null"]
Str(s) == [t |-> "string", s |-> s]
Bool(b) == [t |-> "boolean", b |-> b]
Num(n) == [t |-> "number", n |-> n]
Fn(f) == [t |-> "function", f |-> f]

\* JavaScript ToBoolean, as applied by the ! operator
ToBoolean(v) ==
  CASE v.t = "undefined" -> FALSE
    [] v.t = "null" -> FALSE
    [] v.t = "boolean" -> v.b
    [] v.t = "number" -> v.n # 0
    [] v.t = "string" -> Len(v.s) > 0
    [] v.t = "function" -> TRUE

Digits == <<"0", "1", "2", "3", "4", "5", "6", "7", "8", "9">>

\* The text React puts in the DOM for a child expression: strings as they
\* are, numbers in decimal, nothing for booleans, null and undefined.
ChildText(v) ==
  CASE v.t = "string" -> v.s
    [] v.t = "number" -> <<Digits[v.n + 1]>>
    [] OTHER -> <<>>

\* ------------------------------------------------------------ input sets
Notifiers == {"f1", "f2"}

\* texts the search box can hold: "", "ab", " a "
InputTexts == {<<>>, <<"a", "b">>, <<" ", "a", " ">>}

\* title strings: "", "0", " ", "Go"
TitleStrings == {<<>>, <<"0">>, <<" ">>, <<"G", "o">>}

\* configurations that honour the declared prop types
ValidProps ==
  [onSearch : {Fn(f) : f \in Notifiers},
   searchEnabled : {Bool(TRUE), Bool(FALSE)},
   searchTitle : {Undefined, Str(<<"0">>)}]

\* configurations a caller can pass, required props possibly omitted and
\* the title possibly of another type
AnyProps ==
  [onSearch : {Undefined} \cup {Fn(f) : f \in Notifiers},
   searchEnabled : {Undefined, Bool(TRUE), Bool(FALSE)},
   searchTitle : {Undefined, Null, Bool(FALSE), Num(0), Num(7)}
                   \cup {Str(s) : s \in TitleStrings}]

\* configurations with the required props present or omitted
LooseProps ==
  [onSearch : {Undefined, Fn("f1")},
   searchEnabled : {Undefined, Bool(TRUE), Bool(FALSE)},
   searchTitle : {Undefined}]

\* ----------------------------------------------------------------- state
VARIABLES
  devBuild,       \* development build of React: prop types are checked
  props,          \* configuration of the latest render
  tree,           \* markup tree of the latest render
  inputValue,     \* text held by the DOM input (it is uncontrolled)
  events,         \* input-change events dispatched so far, by text value
  calls,          \* notifier invocations so far: which notifier, which argument
  thrown,         \* a TypeError has escaped from the change handler
  failures,       \* prop-type failure messages logged so far
  submits,        \* submit events dispatched to the form
  navigations,    \* default form submissions performed by the browser
  firedDisabled,  \* a change event was dispatched while the input was disabled
  firstProps,     \* configuration of the first render
  firstTree       \* markup tree of the first render

vars == <<devBuild, props, tree, inputValue, events, calls, thrown, failures,
          submits, navigations, firedDisabled, firstProps, firstTree>>

\* ---------------------------------------------------------- the component
DefaultTitle == <<"C", "h", "o", "o", "s", "e", " ", "a", " ", "p", "a", "g", "e">>

propTypes ==
  [onSearch |-> [type |-> "function", isRequired |-> TRUE],
   searchEnabled |-> [type |-> "boolean", isRequired |-> TRUE],
   searchTitle |-> [type |-> "string", isRequired |-> FALSE]]

\* prop-types: the failures of a configuration against propTypes
checkPropTypes(p) ==
  {[prop |-> n, failure |-> "required"] :
      n \in {m \in DOMAIN propTypes :
               /\ propTypes[m].isRequired
               /\ p[m].t \in {"undefined", "null"}}}
  \cup
  {[prop |-> n, failure |-> "invalid"] :
      n \in {m \in DOMAIN propTypes :
               /\ p[m].t \notin {"undefined", "null"}
               /\ p[m].t # propTypes[m].type}}

NoTree == [kind |-> "none"]
NoProps == [kind |-> "none"]

\* Variant: the default only replaces an absent title (searchTitle ?? ...).
TitleChild_nullish(searchTitle) ==
  IF searchTitle.t \in {"undefined", "null"} THEN Str(DefaultTitle) ELSE searchTitle

\* Variant: the numeral text "0" is taken for an empty title.
TitleChild_zero(searchTitle) ==
  IF ~ToBoolean(searchTitle) \/ searchTitle = Str(<<"0">>)
    THEN Str(DefaultTitle)
    ELSE searchTitle

\* {!searchTitle ? 'Choose a page' : searchTitle}
TitleChild(searchTitle) ==
  IF ~ToBoolean(searchTitle) THEN Str(DefaultTitle) ELSE searchTitle

\* Variant: the change handler is wired only while the search is enabled.
PageChooserHeader_gated(p) ==
  [kind |-> "header",
   title |-> ChildText(TitleChild(p.searchTitle)),
   disabled |-> ~ToBoolean(p.searchEnabled),
   onChange |-> IF ToBoolean(p.searchEnabled) THEN p.onSearch ELSE Undefined,
   onSubmit |-> "none"]

\* Variant: disabled={searchEnabled}, the negation forgotten.
PageChooserHeader_unnegated(p) ==
  [kind |-> "header",
   title |-> ChildText(TitleChild(p.searchTitle)),
   disabled |-> ToBoolean(p.searchEnabled),
   onChange |-> p.onSearch,
   onSubmit |-> "none"]

\* Variant: the form has a submit handler that prevents the default.
PageChooserHeader_onSubmit(p) ==
  [kind |-> "header",
   title |-> ChildText(TitleChild(p.searchTitle)),
   disabled |-> ~ToBoolean(p.searchEnabled),
   onChange |-> p.onSearch,
   onSubmit |-> "preventDefault"]

\* Variant: the title is taken from the configuration of the render before.
PageChooserHeader_previous(p) ==
  [kind |-> "header",
   title |-> IF props = NoProps
               THEN ChildText(TitleChild(p.searchTitle))
               ELSE ChildText(TitleChild(props.searchTitle)),
   disabled |-> ~ToBoolean(p.searchEnabled),
   onChange |-> p.onSearch,
   onSubmit |-> "none"]

\* The markup tree of one render: the text of the title, the disabled
\* attribute of the search input, the notifier its change handler closed
\* over, and the submit handler of the form (there is none).
PageChooserHeader(p) ==
  [kind |-> "header",
   title |-> ChildText(TitleChild(p.searchTitle)),
   disabled |-> ~ToBoolean(p.searchEnabled),
   onChange |-> p.onSearch,
   onSubmit |-> "none"]

Init ==
  /\ devBuild \in BOOLEAN
  /\ props = NoProps
  /\ tree = NoTree
  /\ inputValue = <<>>
  /\ events = <<>>
  /\ calls = <<>>
  /\ thrown = FALSE
  /\ failures = {}
  /\ submits = 0
  /\ navigations = 0
  /\ firedDisabled = FALSE
  /\ firstProps = NoProps
  /\ firstTree = NoTree

\* Variant: a failed prop-type check throws, no markup is produced.
Render_strict(p) ==
  /\ failures' = IF devBuild THEN failures \cup checkPropTypes(p) ELSE failures
  /\ props' = p
  /\ tree' = IF checkPropTypes(p) = {} THEN PageChooserHeader(p) ELSE tree
  /\ firstProps' = IF tree = NoTree THEN p ELSE firstProps
  /\ firstTree' = IF tree = NoTree THEN tree' ELSE firstTree
  /\ UNCHANGED <<devBuild, inputValue, events, calls, thrown, submits,
                 navigations, firedDisabled>>

\* Variant: the input keeps the change handler of the first render.
Render_keepsHandler(p) ==
  /\ failures' = IF devBuild THEN failures \cup checkPropTypes(p) ELSE failures
  /\ props' = p
  /\ tree' = IF tree = NoTree
               THEN PageChooserHeader(p)
               ELSE [PageChooserHeader(p) EXCEPT !.onChange = tree.onChange]
  /\ firstProps' = IF tree = NoTree THEN p ELSE firstProps
  /\ firstTree' = IF tree = NoTree THEN PageChooserHeader(p) ELSE firstTree
  /\ UNCHANGED <<devBuild, inputValue, events, calls, thrown, submits,
                 navigations, firedDisabled>>

\* Variant: every render reports the current text to the notifier.
Render_notifies(p) ==
  /\ failures' = IF devBuild THEN failures \cup checkPropTypes(p) ELSE failures
  /\ props' = p
  /\ tree' = PageChooserHeader(p)
  /\ firstProps' = IF tree = NoTree THEN p ELSE firstProps
  /\ firstTree' = IF tree = NoTree THEN PageChooserHeader(p) ELSE firstTree
  /\ calls' = IF p.onSearch.t = "function" /\ Len(calls) < MaxEvents
               THEN Append(calls, [fn |-> p.onSearch.f, arg |-> inputValue])
               ELSE calls
  /\ UNCHANGED <<devBuild, inputValue, events, thrown, submits,
                 navigations, firedDisabled>>

\* The host (re)renders the component with configuration p.
Render(p) ==
  /\ failures' = IF devBuild THEN failures \cup checkPropTypes(p) ELSE failures
  /\ props' = p
  /\ tree' = PageChooserHeader(p)
  /\ firstProps' = IF tree = NoTree THEN p ELSE firstProps
  /\ firstTree' = IF tree = NoTree THEN PageChooserHeader(p) ELSE firstTree
  /\ UNCHANGED <<devBuild, inputValue, events, calls, thrown, submits,
                 navigations, firedDisabled>>

RECURSIVE TrimLeft(_)
TrimLeft(s) ==
  IF s # <<>> /\ Head(s) = " " THEN TrimLeft(Tail(s)) ELSE s

RECURSIVE TrimRight(_)
TrimRight(s) ==
  IF s # <<>> /\ s[Len(s)] = " " THEN TrimRight(SubSeq(s, 1, Len(s) - 1)) ELSE s

\* Variant: e => onSearch(e.target.value.trim())
onChange_trim(onSearch, value) ==
  IF onSearch.t = "function"
    THEN /\ calls' = Append(calls, [fn |-> onSearch.f, arg |-> TrimRight(TrimLeft(value))])
         /\ thrown' = thrown
    ELSE /\ calls' = calls
         /\ thrown' = TRUE

\* e => onSearch(e.target.value), with onSearch as the render closed over it
onChange(onSearch, value) ==
  IF onSearch.t = "function"
    THEN /\ calls' = Append(calls, [fn |-> onSearch.f, arg |-> value])
         /\ thrown' = thrown
    ELSE /\ calls' = calls
         /\ thrown' = TRUE

\* A change event reaches the input with target.value = v.
ChangeEvent(v) ==
  /\ tree # NoTree
  /\ Len(events) < MaxEvents
  /\ inputValue' = v
  /\ events' = Append(events, v)
  /\ firedDisabled' = (firedDisabled \/ tree.disabled)
  /\ onChange(tree.onChange, v)
  /\ UNCHANGED <<devBuild, props, tree, failures, submits, navigations,
                 firstProps, firstTree>>

\* The user edits the text of the input, which an enabled input allows.
UserInput(v) ==
  /\ tree # NoTree
  /\ ~tree.disabled
  /\ v # inputValue
  /\ ChangeEvent(v)

\* A change event is dispatched programmatically (a simulated event),
\* whatever the disabled attribute says.
SimulateChange(v) ==
  ChangeEvent(v)

\* The form is submitted (the hidden submit control, or Enter): the form
\* has no submit handler, the browser performs its default submission.
Submit ==
  /\ tree # NoTree
  /\ submits < MaxSubmits
  /\ submits' = submits + 1
  /\ IF tree.onSubmit = "none"
       THEN navigations' = navigations + 1
       ELSE navigations' = navigations
  /\ UNCHANGED <<devBuild, props, tree, inputValue, events, calls, thrown,
                 failures, firedDisabled, firstProps, firstTree>>

Next ==
  \/ \E p \in ValidProps : Render(p)
  \/ \E v \in InputTexts : UserInput(v)
  \/ \E v \in InputTexts : SimulateChange(v)
  \/ Submit

Spec == Init /\ [][Next]_vars

\* Renders only, over every configuration a caller can pass.
NextRender ==
  \E p \in AnyProps : Render(p)

SpecRender == Init /\ [][NextRender]_vars

\* Every operation, the caller being free to omit the required props.
NextLoose ==
  \/ \E p \in LooseProps : Render(p)
  \/ \E v \in InputTexts : UserInput(v)
  \/ \E v \in InputTexts : SimulateChange(v)
  \/ Submit

SpecLoose == Init /\ [][NextLoose]_vars

\* ------------------------------------------------------------ properties
RequiredProps == {"onSearch", "searchEnabled"}

Args(cs) == [i \in 1..Len(cs) |-> cs[i].arg]

\* C1: every input-change event makes exactly one notifier invocation, at
\* once, and its argument is the text the input holds at that event,
\* untouched; the empty text included.
C1_OneCallPerChange ==
  [][events' # events =>
       /\ Len(calls') = Len(calls) + 1
       /\ SubSeq(calls', 1, Len(calls)) = calls
       /\ calls'[Len(calls')].arg = inputValue'
       /\ inputValue' = events'[Len(events')]]_vars

C1_Witness ==
  \E i, j \in DOMAIN calls :
    /\ calls[i].arg = <<>>
    /\ calls[j].arg = <<" ", "a", " ">>

\* C2: the arguments of the notifier invocations, in order, are the text
\* values of the input-change events, in order: nothing is reordered,
\* coalesced or cancelled, also for events that reach a disabled input.
C2_CallsMirrorEvents ==
  Args(calls) = events

C2_Witness ==
  /\ firedDisabled
  /\ Len(events) >= 2
  /\ events[1] # events[2]
  /\ Len(calls) = Len(events)

\* C3 as stated: a render that omits a required prop never yields a markup
\* tree.
C3_NoMarkupWhenRequiredMissing ==
  (/\ props # NoProps
   /\ \E m \in RequiredProps : props[m] = Undefined)
    => tree = NoTree

\* C3, amended: a render that omits a required prop still yields the markup
\* tree (the input disabled when searchEnabled is the omitted one); the
\* omission is reported as a prop-type failure naming the prop, in a
\* development build and in no other.
C3_MarkupDespiteMissing ==
  props # NoProps =>
    /\ tree # NoTree
    /\ tree.kind = "header"
    /\ props.searchEnabled = Undefined => tree.disabled
    /\ tree.onChange = props.onSearch
    /\ \A m \in RequiredProps :
         props[m] = Undefined =>
           (devBuild <=> [prop |-> m, failure |-> "required"] \in failures)

C3_Witness ==
  /\ devBuild
  /\ props # NoProps
  /\ props.onSearch = Undefined
  /\ props.searchEnabled = Undefined
  /\ tree # NoTree
  /\ Cardinality(failures) = 2

\* C4: when searchTitle is falsy (absent, null, empty, or another falsy
\* value) the title reads "Choose a page", whatever the other props are.
C4_DefaultTitle ==
  (/\ tree # NoTree
   /\ props.searchTitle \in {Undefined, Null, Str(<<>>), Bool(FALSE), Num(0)})
    => tree.title = DefaultTitle

C4_Witness ==
  /\ tree # NoTree
  /\ props.searchTitle = Str(<<>>)
  /\ props.searchEnabled = Bool(FALSE)
  /\ tree.title = DefaultTitle

\* C5: when searchTitle is a non-empty string ("0" and " " included) the
\* title reads that string, character for character.
C5_TitleVerbatim ==
  (/\ tree # NoTree
   /\ props.searchTitle.t = "string"
   /\ props.searchTitle.s # <<>>)
    => /\ tree.title = props.searchTitle.s
       /\ tree.title # DefaultTitle

C5_Witness ==
  /\ tree # NoTree
  /\ props.searchTitle = Str(<<"0">>)
  /\ tree.title = <<"0">>

\* C6: the disabled attribute of the search input is the negation of
\* searchEnabled, whatever the title is and whatever has been typed.
C6_DisabledIsNegation ==
  tree # NoTree =>
    /\ props.searchEnabled = Bool(TRUE) => ~tree.disabled
    /\ props.searchEnabled = Bool(FALSE) => tree.disabled

C6_Witness ==
  /\ tree # NoTree
  /\ props.searchEnabled = Bool(FALSE)
  /\ props.searchTitle = Str(<<"0">>)
  /\ inputValue # <<>>
  /\ tree.disabled

\* C7: a submit event invokes no notifier and changes nothing of the
\* component; the browser's default submission takes place.
C7_SubmitNotIntercepted ==
  [][submits' # submits =>
       /\ calls' = calls
       /\ events' = events
       /\ thrown' = thrown
       /\ tree' = tree
       /\ inputValue' = inputValue
       /\ navigations' = navigations + 1]_vars

C7_Witness ==
  /\ submits > 0
  /\ navigations = submits
  /\ inputValue # <<>>
  /\ Len(calls) > 0

\* C8: a render with the configuration of the first render yields the
\* markup of the first render, whatever was rendered and typed in between.
C8_Stateless ==
  (tree # NoTree /\ props = firstProps) => tree = firstTree

C8_Witness ==
  /\ tree # NoTree
  /\ props = firstProps
  /\ inputValue # <<>>
  /\ \E i \in DOMAIN calls : calls[i].fn # props.onSearch.f

\* C9: the number of notifier invocations is the number of input-change
\* events; renders add none.
C9_CallCountIsEventCount ==
  Len(calls) = Len(events)

C9_Witness ==
  /\ tree # NoTree
  /\ props # firstProps
  /\ calls = <<>>

\* C10: a notifier invocation is always of the notifier passed to the most
\* recent render.
C10_LatestNotifier ==
  [][Len(calls') > Len(calls) =>
       calls'[Len(calls')].fn = props.onSearch.f]_vars

C10_Witness ==
  /\ Len(calls) >= 2
  /\ calls[1].fn # calls[2].fn
  /\ calls[2].fn = props.onSearch.f
  /\ firstProps.onSearch = Fn(calls[1].fn)
====
